---------------------------- MODULE Spec2Model ----------------------------
(***************************************************************************)
(* A model of package terminfo (terminfo.go): Decode, the decoder of a     *)
(* compiled terminfo file, and Open, the lookup that reads one of two      *)
(* candidate files, decodes it and publishes the table in termCache.       *)
(*                                                                         *)
(* Bytes are the integers 0..255, a []byte and a string are sequences of   *)
(* bytes.  A Go pair of a Terminfo pointer and an error is [ti, err]: ti   *)
(* is <<>> for a nil pointer and <<t>> for a pointer to the table t, and   *)
(* err is NoErr for a nil error.                                           *)
(*                                                                         *)
(* The byte cursor (decoder, readInt16, readNums, readBools, readBytes,    *)
(* readStrings), the header arithmetic (hasInvalidCaps, capLength,         *)
(* hasInvalidExtOffset, extCapLength), makemap, the field indices, magic   *)
(* and termCache are declared in files other than terminfo.go; they are    *)
(* modelled after the description of the format.                           *)
(***************************************************************************)
EXTENDS Integers, Sequences, FiniteSets, TLC

(***************************************************************************)
(* Errors (terminfo.go, var block)                                         *)
(***************************************************************************)
NoErr == "nil"
ErrInvalidFileSize == "invalid file size"
ErrUnexpectedFileEnd == "unexpected file end"
ErrInvalidStringTable == "invalid string table"
ErrInvalidMagic == "invalid magic"
ErrInvalidHeader == "invalid header"
ErrInvalidExtendedHeader == "invalid extended header"
ErrEmptyTermName == "empty term name"
ErrFileNotFound == "file not found"

(***************************************************************************)
(* Constants of the format                                                 *)
(***************************************************************************)
maxFileLength == 4096
magic == 282
fieldNameSize == 0
fieldBoolCount == 1
fieldNumCount == 2
fieldStringCount == 3
fieldTableSize == 4
fieldExtBoolCount == 0
fieldExtNumCount == 1
fieldExtStringCount == 2
fieldExtOffsetCount == 3
fieldExtTableSize == 4
capCountBool == 44
capCountNum == 39
capCountString == 414

(***************************************************************************)
(* Generic helpers                                                         *)
(***************************************************************************)
SeqMax(S) == CHOOSE x \in S : \A y \in S : y <= x
SeqMin(S) == CHOOSE x \in S : \A y \in S : x <= y
Drop(s, n) == SubSeq(s, n + 1, Len(s))
Take(s, n) == SubSeq(s, 1, n)
EmptyMap == [x \in {} |-> 0]

\* A little-endian 16 bit word read as a signed integer.
ToInt16(lo, hi) ==
  LET u == lo + 256 * hi IN IF u >= 32768 THEN u - 65536 ELSE u

(***************************************************************************)
(* The byte cursor.  A decoder is [buf, len, pos]; pos counts from 0, so   *)
(* the next byte is buf[pos + 1].  Every read returns the advanced decoder *)
(* d, the value v (and the missing set m), and err.                        *)
(***************************************************************************)
NewDecoder(buf) == [buf |-> buf, len |-> Len(buf), pos |-> 0]

readBytes(d, n) ==
  IF d.len - d.pos < n
    THEN [d |-> d, v |-> <<>>, err |-> ErrUnexpectedFileEnd]
    ELSE [d |-> [d EXCEPT !.pos = @ + n],
          v |-> SubSeq(d.buf, d.pos + 1, d.pos + n),
          err |-> NoErr]

readInt16(d) ==
  IF d.len - d.pos < 2
    THEN [d |-> d, v |-> 0, err |-> ErrUnexpectedFileEnd]
    ELSE [d |-> [d EXCEPT !.pos = @ + 2],
          v |-> ToInt16(d.buf[d.pos + 1], d.buf[d.pos + 2]),
          err |-> NoErr]

\* count 16 bit integers; the sentinel -1 marks a missing capability.
readNums(d, count, max) ==
  LET r == readBytes(d, 2 * count) IN
  IF r.err # NoErr
    THEN [d |-> d, v |-> <<>>, m |-> {}, err |-> r.err]
    ELSE LET nums == [i \in 1..count |-> ToInt16(r.v[2 * i - 1], r.v[2 * i])]
         IN [d |-> r.d, v |-> nums,
             m |-> {i \in 0..(count - 1) : nums[i + 1] = -1},
             err |-> NoErr]

\* count bytes as booleans; the sentinel byte 255 (-1) marks a missing one.
readBools(d, count, max) ==
  LET r == readBytes(d, count) IN
  IF r.err # NoErr
    THEN [d |-> d, v |-> <<>>, m |-> {}, err |-> r.err]
    ELSE [d |-> r.d,
          v |-> [i \in 1..count |-> r.v[i] = 1],
          m |-> {i \in 0..(count - 1) : r.v[i + 1] = 255},
          err |-> NoErr]

\* Whether offset off resolves to a NUL-terminated string within data.
Resolves(data, off) ==
  off >= 0 /\ \E j \in (off + 1)..Len(data) : data[j] = 0

\* The string at offset off of data, up to (not including) its terminator.
StringAt(data, off) ==
  LET end == SeqMin({j \in (off + 1)..Len(data) : data[j] = 0})
  IN SubSeq(data, off + 1, end - 1)

\* count offsets, then the table of size bytes, then every offset resolved.
readStrings(d, count, size, max) ==
  LET o == readNums(d, count, max)
      t == readBytes(o.d, size)
  IN IF o.err # NoErr
       THEN [d |-> d, v |-> <<>>, m |-> {}, err |-> o.err]
     ELSE IF t.err # NoErr
       THEN [d |-> d, v |-> <<>>, m |-> {}, err |-> t.err]
     ELSE IF \E i \in 1..count : o.v[i] # -1 /\ ~Resolves(t.v, o.v[i])
       THEN [d |-> t.d, v |-> <<>>, m |-> {}, err |-> ErrInvalidStringTable]
     ELSE [d |-> t.d,
           v |-> [i \in 1..count |->
                    IF o.v[i] = -1 THEN <<>> ELSE StringAt(t.v, o.v[i])],
           m |-> o.m,
           err |-> NoErr]

(***************************************************************************)
(* Header arithmetic                                                       *)
(***************************************************************************)
hasInvalidCaps(h) ==
  \/ \E i \in 1..5 : h[i] < 0
  \/ h[fieldBoolCount + 1] > capCountBool
  \/ h[fieldNumCount + 1] > capCountNum
  \/ h[fieldStringCount + 1] > capCountString

capLength(h) ==
  h[fieldNameSize + 1] + h[fieldBoolCount + 1] + 2 * h[fieldNumCount + 1]
    + 2 * h[fieldStringCount + 1] + h[fieldTableSize + 1]

hasInvalidExtOffset(eh) ==
  eh[fieldExtBoolCount + 1] + eh[fieldExtNumCount + 1]
    + 2 * eh[fieldExtStringCount + 1] # eh[fieldExtOffsetCount + 1]

extCapLength(eh) ==
  eh[fieldExtBoolCount + 1] + 2 * eh[fieldExtNumCount + 1]
    + 2 * eh[fieldExtOffsetCount + 1] + eh[fieldExtTableSize + 1]

\* The map from every name of s to its index (from 0); a name that occurs
\* twice keeps its last index.
makemap(s) ==
  [n \in {s[i] : i \in 1..Len(s)} |->
     SeqMax({i \in 1..Len(s) : s[i] = n}) - 1]

(***************************************************************************)
(* strings.TrimRight of NUL bytes and strings.Split on the bar character   *)
(***************************************************************************)
TrimRightNul(s) ==
  LET keep == {i \in 1..Len(s) : s[i] # 0}
  IN IF keep = {} THEN <<>> ELSE Take(s, SeqMax(keep))

\* The pieces of s between the separators (byte 124); always at least one.
SplitBar(s) ==
  LET bars == {i \in 1..Len(s) : s[i] = 124}
      cuts == bars \cup {0, Len(s) + 1}
      starts == cuts \ {Len(s) + 1}
      nth(k) == CHOOSE c \in starts : Cardinality({x \in starts : x < c}) = k - 1
      nextcut(c) == SeqMin({x \in cuts : x > c})
  IN [k \in 1..Cardinality(starts) |->
        SubSeq(s, nth(k) + 1, nextcut(nth(k)) - 1)]
(***************************************************************************)
(* Decode (terminfo.go).  A Terminfo is a record of the struct's fields;   *)
(* a nil slice is <<>>, a nil map is EmptyMap, the empty File is <<>>.     *)
(***************************************************************************)
NewTerminfo(names, bools, nums, strs) ==
  [File |-> <<>>,
   Names |-> SplitBar(TrimRightNul(names)),
   Bools |-> bools.v, BoolsM |-> bools.m,
   Nums |-> nums.v, NumsM |-> nums.m,
   Strings |-> strs.v, StringsM |-> strs.m,
   ExtBools |-> <<>>, ExtNums |-> <<>>, ExtStrings |-> <<>>,
   ExtBoolsNames |-> EmptyMap, ExtNumsNames |-> EmptyMap,
   ExtStringsNames |-> EmptyMap]

\* Variant of TooLarge: the size check off by one (>).
TooLargeStrict(buf) == Len(buf) > maxFileLength

\* len(buf) >= 4096
TooLarge(buf) == Len(buf) >= maxFileLength

\* d.len-d.pos < capLength(h)
ShortCaps(d, h) == d.len - d.pos < capLength(h)

\* d.pos >= d.len: at the end of file, so no extended capabilities
AtEnd(d) == d.pos >= d.len

\* Variant of ExtLengthMismatch: only too few bytes are refused (<).
ExtLengthShort(d, eh) == d.len - d.pos < extCapLength(eh)

\* d.len-d.pos != extCapLength(eh)
ExtLengthMismatch(d, eh) == d.len - d.pos # extCapLength(eh)

\* return nil, err
Fail(err) == [ti |-> <<>>, err |-> err]

\* Variant of ExtFail: the table assembled so far is returned with the error.
ExtFailKeep(ti, err) == [ti |-> <<ti>>, err |-> err]

\* return nil, err once ti has been assembled from the legacy region
ExtFail(ti, err) == [ti |-> <<>>, err |-> err]

\* Decode is written as its statements in reverse order: every stage takes
\* what was read so far and the result of the read just made, tests it as
\* the code does, makes the next read and goes on with the next stage.

\* Lines 198-206: the extended string values, then the three name maps.
DecodeExtStrings(ti, eh, bools, nums, s) ==
  LET nb == eh[fieldExtBoolCount + 1]
      nn == eh[fieldExtNumCount + 1]
      ns == eh[fieldExtStringCount + 1]
  IN IF s.err # NoErr THEN ExtFail(ti, s.err)
     ELSE [ti |-> <<[ti EXCEPT
                       !.ExtBools = bools,
                       !.ExtNums = nums,
                       !.ExtStrings = Take(s.v, ns),
                       !.ExtBoolsNames = makemap(Take(Drop(s.v, ns), nb)),
                       !.ExtNumsNames = makemap(Take(Drop(s.v, ns + nb), nn)),
                       !.ExtStringsNames =
                          makemap(Take(Drop(s.v, ns + nb + nn), ns))]>>,
           err |-> NoErr]

\* Lines 185-196: the extended nums, then the read of the string table.
DecodeExtNums(ti, eh, bools, nums) ==
  LET count == eh[fieldExtBoolCount + 1] + eh[fieldExtNumCount + 1]
                 + 2 * eh[fieldExtStringCount + 1]
  IN IF nums.err # NoErr THEN ExtFail(ti, nums.err)
     ELSE DecodeExtStrings(ti, eh, bools, nums.v,
            readStrings(nums.d, count, eh[fieldExtTableSize + 1], count))

\* Lines 179-186: the extended bools, then the read of the extended nums.
DecodeExtBools(ti, eh, bools) ==
  IF bools.err # NoErr THEN ExtFail(ti, bools.err)
  ELSE DecodeExtNums(ti, eh, bools.v,
         readNums(bools.d, eh[fieldExtNumCount + 1], eh[fieldExtNumCount + 1]))

\* Lines 163-180: the extended header and its checks.
DecodeExtended(ti, eh) ==
  IF eh.err # NoErr THEN ExtFail(ti, eh.err)
  ELSE IF hasInvalidExtOffset(eh.v) THEN ExtFail(ti, ErrInvalidExtendedHeader)
  ELSE IF ExtLengthMismatch(eh.d, eh.v) THEN ExtFail(ti, ErrInvalidExtendedHeader)
  ELSE DecodeExtBools(ti, eh.v,
         readBools(eh.d, eh.v[fieldExtBoolCount + 1], eh.v[fieldExtBoolCount + 1]))

\* Lines 158-164: the end of the legacy region.
DecodeRest(d, ti) ==
  IF AtEnd(d) THEN [ti |-> <<ti>>, err |-> NoErr]
  ELSE DecodeExtended(ti, readNums(d, 5, 5))

\* Lines 142-156: the strings, then the table of the legacy region.
DecodeStrings(names, bools, nums, strs) ==
  IF strs.err # NoErr THEN Fail(strs.err)
  ELSE DecodeRest(strs.d, NewTerminfo(names, bools, nums, strs))

\* Lines 136-143
DecodeNums(h, names, bools, nums) ==
  IF nums.err # NoErr THEN Fail(nums.err)
  ELSE DecodeStrings(names, bools, nums,
         readStrings(nums.d, h[fieldStringCount + 1], h[fieldTableSize + 1],
                     capCountString))

\* Lines 130-137
DecodeBools(h, names, bools) ==
  IF bools.err # NoErr THEN Fail(bools.err)
  ELSE DecodeNums(h, names, bools,
         readNums(bools.d, h[fieldNumCount + 1], capCountNum))

\* Lines 124-131
DecodeNames(h, names) ==
  IF names.err # NoErr THEN Fail(names.err)
  ELSE DecodeBools(h, names.v,
         readBools(names.d, h[fieldBoolCount + 1], capCountBool))

\* Lines 108-125: the header and its checks.
DecodeHeader(h) ==
  IF h.err # NoErr THEN Fail(h.err)
  ELSE IF hasInvalidCaps(h.v) THEN Fail(ErrInvalidHeader)
  ELSE IF ShortCaps(h.d, h.v) THEN Fail(ErrUnexpectedFileEnd)
  ELSE DecodeNames(h.v, readBytes(h.d, h.v[fieldNameSize + 1]))

\* Lines 99-109: the magic.
DecodeMagic(m) ==
  IF m.err # NoErr THEN Fail(m.err)
  ELSE IF m.v # magic THEN Fail(ErrInvalidMagic)
  ELSE DecodeHeader(readNums(m.d, 5, 5))

\* Lines 87-100
Decode(buf) ==
  IF TooLarge(buf) THEN Fail(ErrInvalidFileSize)
  ELSE DecodeMagic(readInt16(NewDecoder(buf)))

(***************************************************************************)
(* Files to decode.  Encode writes a file from its parts; it is used only  *)
(* to build inputs.                                                        *)
(***************************************************************************)
Enc16(v) == LET u == IF v < 0 THEN v + 65536 ELSE v IN <<u % 256, u \div 256>>

RECURSIVE EncNums(_)
EncNums(s) == IF s = <<>> THEN <<>> ELSE Enc16(Head(s)) \o EncNums(Tail(s))

\* The legacy region: names is the name blob, bools the bool bytes, nums
\* the numbers, offs the string offsets, table the string table.
EncodeLegacy(names, bools, nums, offs, table) ==
  Enc16(magic)
    \o EncNums(<<Len(names), Len(bools), Len(nums), Len(offs), Len(table)>>)
    \o names \o bools \o EncNums(nums) \o EncNums(offs) \o table

\* An extended region with nb bools, nn nums and ns strings; offs are the
\* offsets of the ns values and then of the nb + nn + ns names.
EncodeExt(bools, nums, ns, offs, table) ==
  EncNums(<<Len(bools), Len(nums), ns, Len(offs), Len(table)>>)
    \o bools \o EncNums(nums) \o EncNums(offs) \o table
(***************************************************************************)
(* Bounds of the model                                                     *)
(***************************************************************************)
\* Open calls made in one run, over all callers.
MaxCalls == 3
\* Buffers of maxFileLength - 1 up to maxFileLength + MaxOver bytes are decoded.
MaxOver == 1

(***************************************************************************)
(* The files given to Decode: a base file, as written or changed.          *)
(***************************************************************************)
NameX == <<120>>
NameY == <<121>>
ExtOK == EncodeExt(<<1>>, <<7>>, 1, <<0, 2, 4, 6>>,
                   <<118, 0, 98, 0, 110, 0, 115, 0>>)

\* Every base file is [legacy, ext]: its legacy region and what follows it.
BaseFile(id) ==
  CASE id = "names" ->
         [legacy |-> EncodeLegacy(<<120, 124, 115, 104, 0>>, <<>>, <<>>, <<>>, <<>>),
          ext |-> <<>>]
    [] id = "caps" ->
         [legacy |-> EncodeLegacy(<<120, 0>>, <<1, 255>>, <<80, -1>>,
                                  <<0, -1>>, <<97, 0>>),
          ext |-> <<>>]
    [] id = "ext" ->
         [legacy |-> EncodeLegacy(<<120, 0>>, <<1, 0>>, <<80>>, <<0>>, <<97, 0>>),
          ext |-> ExtOK]
    [] id = "extHeaderOnly" ->
         [legacy |-> EncodeLegacy(<<121, 0>>, <<>>, <<>>, <<>>, <<>>),
          ext |-> EncodeExt(<<>>, <<>>, 0, <<>>, <<>>)]
    [] id = "extTwoBools" ->
         [legacy |-> EncodeLegacy(<<121, 0>>, <<>>, <<>>, <<>>, <<>>),
          ext |-> EncodeExt(<<1, 0>>, <<>>, 0, <<0, 2>>, <<98, 0, 99, 0>>)]
    [] id = "extEmptyName" ->
         [legacy |-> EncodeLegacy(<<121, 0>>, <<>>, <<>>, <<>>, <<>>),
          ext |-> EncodeExt(<<1>>, <<>>, 0, <<1>>, <<98, 0>>)]
    [] id = "extDupName" ->
         [legacy |-> EncodeLegacy(<<121, 0>>, <<>>, <<>>, <<>>, <<>>),
          ext |-> EncodeExt(<<1, 0>>, <<>>, 0, <<0, 0>>, <<98, 0>>)]
    [] id = "extBadOffset" ->
         [legacy |-> EncodeLegacy(<<121, 0>>, <<>>, <<>>, <<>>, <<>>),
          ext |-> EncodeExt(<<1>>, <<>>, 0, <<5>>, <<98, 0>>)]
    [] id = "extBadCount" ->
         [legacy |-> EncodeLegacy(<<121, 0>>, <<>>, <<>>, <<>>, <<>>),
          ext |-> EncNums(<<1, 0, 0, 2, 2>>) \o <<1>> \o EncNums(<<0, 0>>)
                    \o <<98, 0>>]
    [] id = "badMagic" ->
         [legacy |-> <<27, 1>> \o Drop(EncodeLegacy(<<120, 0>>, <<>>, <<>>, <<>>, <<>>), 2),
          ext |-> <<>>]
    [] id = "badHeader" ->
         [legacy |-> Enc16(magic) \o EncNums(<<2, capCountBool + 1, 0, 0, 0>>)
                       \o <<120, 0>> \o [i \in 1..(capCountBool + 1) |-> 0],
          ext |-> <<>>]
    [] id = "negHeader" ->
         [legacy |-> Enc16(magic) \o EncNums(<<2, 0, -1, 0, 0>>) \o <<120, 0>>,
          ext |-> <<>>]
    [] id = "badTable" ->
         [legacy |-> EncodeLegacy(<<120, 0>>, <<>>, <<>>, <<1>>, <<97>>),
          ext |-> <<>>]

\* The well-formed base files, and the others.
ValidBases == {"names", "caps", "ext", "extHeaderOnly", "extTwoBools"}
Bases == ValidBases \cup {"extEmptyName", "extDupName", "extBadOffset",
                          "extBadCount", "badMagic", "badHeader", "negHeader",
                          "badTable"}
BaseBytes(id) == BaseFile(id).legacy \o BaseFile(id).ext

\* A well-formed file of exactly n bytes (its name blob NUL-padded), and n
\* bytes that do not start with the magic.
SizedValid(n) ==
  EncodeLegacy([i \in 1..(n - 12) |-> IF i = 1 THEN 120 ELSE 0],
               <<>>, <<>>, <<>>, <<>>)
SizedJunk(n) == [i \in 1..n |-> 0]
Sizes == (maxFileLength - 1)..(maxFileLength + MaxOver)
AppendBytes == {0, 1, 255}

\* An input is a base file as written ("none"), cut to its first k bytes
\* ("prefix"), followed by the byte k ("append"), or a buffer of k bytes.
Inputs ==
  [base : Bases, mut : {"none"}, k : {0}]
    \cup UNION {{[base |-> b, mut |-> "prefix", k |-> k] :
                    k \in 0..(Len(BaseBytes(b)) - 1)} : b \in Bases}
    \cup [base : Bases, mut : {"append"}, k : AppendBytes]
    \cup [base : {"sizedValid", "sizedJunk"}, mut : {"size"}, k : Sizes]

InputBuf(in) ==
  CASE in.mut = "none" -> BaseBytes(in.base)
    [] in.mut = "prefix" -> Take(BaseBytes(in.base), in.k)
    [] in.mut = "append" -> BaseBytes(in.base) \o <<in.k>>
    [] in.mut = "size" ->
         IF in.base = "sizedValid" THEN SizedValid(in.k) ELSE SizedJunk(in.k)
(***************************************************************************)
(* Open (terminfo.go).  The database directory holds, at each of the four  *)
(* candidate paths of the names x and y, nothing, a directory or a file.   *)
(***************************************************************************)
Procs == {1, 2}
CallNames == {NameX, NameY, <<>>}
Dir == <<47, 116>>

\* strconv.FormatUint(n, 16): lowercase hexadecimal digits, no padding.
HexDigit(k) == IF k < 10 THEN 48 + k ELSE 87 + k
RECURSIVE FormatHex(_)
FormatHex(n) ==
  IF n < 16 THEN <<HexDigit(n)>>
  ELSE FormatHex(n \div 16) \o <<HexDigit(n % 16)>>

\* path.Join(dir, sub, name) of clean, non-empty elements.
Join(dir, sub, n) == dir \o <<47>> \o sub \o <<47>> \o n

\* The two files Open tries for name n, in the order it tries them.
Candidates(n) ==
  <<Join(Dir, SubSeq(n, 1, 1), n), Join(Dir, FormatHex(n[1]), n)>>

Paths == UNION {{Candidates(n)[1], Candidates(n)[2]} : n \in CallNames \ {<<>>}}

EntryX == EncodeLegacy(<<120, 124, 115, 104, 0>>, <<1>>, <<>>, <<>>, <<>>)
EntryX2 == EncodeLegacy(<<120, 124, 120, 104, 0>>, <<>>, <<>>, <<>>, <<>>) \o ExtOK
EntryY == EncodeLegacy(<<121, 124, 115, 104, 0>>, <<>>, <<>>, <<>>, <<>>) \o ExtOK
BadMagicFile == BaseBytes("badMagic")
BadExtFile ==
  EncodeLegacy(<<121, 0>>, <<>>, <<>>, <<>>, <<>>) \o Take(ExtOK, Len(ExtOK) - 1)

Absent == [kind |-> "absent", data |-> <<>>]
Directory == [kind |-> "dir", data |-> <<>>]
File(data) == [kind |-> "file", data |-> data]

\* What may be found at path f.
FileChoices(f) ==
  {Absent, Directory} \cup
    (CASE f = Candidates(NameX)[1] -> {File(EntryX)}
       [] f = Candidates(NameX)[2] -> {File(EntryX2)}
       [] f = Candidates(NameY)[1] -> {File(EntryY), File(BadMagicFile)}
       [] f = Candidates(NameY)[2] -> {File(BadExtFile)})

VARIABLES
  fs,       \* the files of the database directory: path -> what is there
  db,       \* termCache.db: name -> table
  mu,       \* termCache's mutex: 0 when unlocked, else the caller holding it
  crashed,  \* a panic has ended the program
  ncalls,   \* Open calls started
  open,     \* per caller: where it is in Open, and Open's local variables
  din,      \* the input given to Decode
  dres      \* <<>> before Decode has returned, then <<its result>>

vars == <<fs, db, mu, crashed, ncalls, open, din, dres>>

NilBuf == [nil |-> TRUE, bytes |-> <<>>]
Buf(b) == [nil |-> FALSE, bytes |-> b]

\* ioutil.ReadFile(f): no file, nil and an error; a directory opens but
\* cannot be read, the empty non-nil buffer and an error; else the bytes.
ReadFile(f) ==
  CASE fs[f].kind = "absent" ->
         [buf |-> NilBuf, err |-> "no such file or directory"]
    [] fs[f].kind = "dir" -> [buf |-> Buf(<<>>), err |-> "is a directory"]
    [] fs[f].kind = "file" -> [buf |-> Buf(fs[f].data), err |-> NoErr]

\* Variant of CachePut: a name already in the cache keeps its table.
CachePutIfAbsent(cache, n, ti) ==
  IF n \in DOMAIN cache THEN cache ELSE (n :> ti) @@ cache

\* termCache.db[n] = ti
CachePut(cache, n, ti) == (n :> ti) @@ cache

\* Variant of FailedOpen: the failure is remembered in the cache.
FailedOpenCaches(cache, n, e) ==
  [db |-> (n :> <<>>) @@ cache, ret |-> [ti |-> <<>>, err |-> e]]

\* A failing return of Open: nil and the error; the cache as it was.
FailedOpen(cache, n, e) == [db |-> cache, ret |-> [ti |-> <<>>, err |-> e]]

\* A caller that is not in Open.  probed (the paths read by the current
\* call), wrote (the current call has written to the cache) and prev (the
\* name and result of the caller's previous call) record its history.
IdleProc ==
  [pc |-> "idle", name |-> <<>>, buf |-> NilBuf, err |-> NoErr,
   filename |-> <<>>, ti |-> <<>>, i |-> 0, dec |-> <<>>, ret |-> <<>>,
   probed |-> <<>>, wrote |-> FALSE, prev |-> <<>>]

InitOpen ==
  /\ \E x1 \in FileChoices(Candidates(NameX)[1]),
        x2 \in FileChoices(Candidates(NameX)[2]),
        y1 \in FileChoices(Candidates(NameY)[1]),
        y2 \in FileChoices(Candidates(NameY)[2]) :
       fs = (Candidates(NameX)[1] :> x1) @@ (Candidates(NameX)[2] :> x2)
              @@ (Candidates(NameY)[1] :> y1) @@ (Candidates(NameY)[2] :> y2)
  /\ db = EmptyMap
  /\ mu = 0
  /\ crashed = FALSE
  /\ ncalls = 0
  /\ open = [p \in Procs |-> IdleProc]

Init ==
  /\ InitOpen
  /\ din = [base |-> "names", mut |-> "none", k |-> 0]
  /\ dres = <<>>

\* Open(dir, n) is called; name[0:1] panics when n is empty.
Call(p, n) ==
  /\ ~crashed
  /\ open[p].pc = "idle"
  /\ ncalls < MaxCalls
  /\ ncalls' = ncalls + 1
  /\ IF n = <<>>
       THEN /\ crashed' = TRUE
            /\ open' = [open EXCEPT ![p] =
                 [IdleProc EXCEPT !.pc = "panic", !.name = n]]
       ELSE /\ crashed' = crashed
            /\ open' = [open EXCEPT ![p] =
                 [IdleProc EXCEPT
                    !.pc = "read1", !.name = n,
                    !.prev = IF open[p].ret = <<>> THEN <<>>
                             ELSE <<[name |-> open[p].name,
                                     ret |-> open[p].ret[1]]>>]]
  /\ UNCHANGED <<fs, db, mu, din, dres>>

\* The first round of the loop: the file under the name's first character.
ReadFirst(p) ==
  /\ ~crashed
  /\ open[p].pc = "read1"
  /\ LET f == Candidates(open[p].name)[1]
         r == ReadFile(f)
     IN open' = [open EXCEPT
          ![p].buf = r.buf, ![p].err = r.err,
          ![p].probed = Append(@, f),
          ![p].filename = IF r.err = NoErr THEN f ELSE @,
          ![p].pc = IF r.err = NoErr THEN "decode" ELSE "read2"]
  /\ UNCHANGED <<fs, db, mu, crashed, ncalls, din, dres>>

\* The second round: the file under the hex of the name's first byte.
ReadSecond(p) ==
  /\ ~crashed
  /\ open[p].pc = "read2"
  /\ LET f == Candidates(open[p].name)[2]
         r == ReadFile(f)
     IN open' = [open EXCEPT
          ![p].buf = r.buf, ![p].err = r.err,
          ![p].probed = Append(@, f),
          ![p].filename = IF r.err = NoErr THEN f ELSE @,
          ![p].pc = "decode"]
  /\ UNCHANGED <<fs, db, mu, crashed, ncalls, din, dres>>

\* Lines 224-235, dec being what Decode(buf) returns: if buf == nil;
\* ti, err := Decode(buf); if err != nil; ti.File = filename
OpenDecoded(p, o, dec, bad) ==
  IF o.buf.nil \/ dec.err # NoErr
    THEN /\ db' = bad.db
         /\ open' = [open EXCEPT
              ![p].dec = IF o.buf.nil THEN <<>> ELSE <<dec>>,
              ![p].err = IF o.buf.nil THEN @ ELSE dec.err,
              ![p].wrote = (@ \/ bad.db # db),
              ![p].ret = <<bad.ret>>,
              ![p].pc = "idle"]
    ELSE /\ db' = db
         /\ open' = [open EXCEPT
              ![p].dec = <<dec>>,
              ![p].err = NoErr,
              ![p].ti = <<[dec.ti[1] EXCEPT !.File = o.filename]>>,
              ![p].pc = "lock"]

OpenDecode(p, o, dec) ==
  OpenDecoded(p, o, dec,
    FailedOpen(db, o.name, IF o.buf.nil THEN ErrFileNotFound ELSE dec.err))

DecodeStep(p) ==
  /\ ~crashed
  /\ open[p].pc = "decode"
  /\ OpenDecode(p, open[p], Decode(open[p].buf.bytes))
  /\ UNCHANGED <<fs, mu, crashed, ncalls, din, dres>>

\* Variant of Lock: the insert section is entered without the mutex.
LockSkipped(p) ==
  /\ ~crashed
  /\ open[p].pc = "lock"
  /\ open' = [open EXCEPT ![p].pc = "insert", ![p].i = 1]
  /\ UNCHANGED <<fs, db, mu, crashed, ncalls, din, dres>>

\* termCache.Lock()
Lock(p) ==
  /\ ~crashed
  /\ open[p].pc = "lock"
  /\ mu = 0
  /\ mu' = p
  /\ open' = [open EXCEPT ![p].pc = "insert", ![p].i = 1]
  /\ UNCHANGED <<fs, db, crashed, ncalls, din, dres>>

\* One round of the loop over ti.Names: termCache.db[n] = ti
Insert(p) ==
  /\ ~crashed
  /\ open[p].pc = "insert"
  /\ LET o == open[p]
         t == o.ti[1]
     IN /\ db' = CachePut(db, t.Names[o.i], t)
        /\ open' = [open EXCEPT
             ![p].i = @ + 1,
             ![p].wrote = TRUE,
             ![p].pc = IF o.i = Len(t.Names) THEN "unlock" ELSE "insert"]
  /\ UNCHANGED <<fs, mu, crashed, ncalls, din, dres>>

\* termCache.Unlock(); return ti, nil
Unlock(p) ==
  /\ ~crashed
  /\ open[p].pc = "unlock"
  /\ mu' = 0
  /\ open' = [open EXCEPT
       ![p].ret = <<[ti |-> open[p].ti, err |-> NoErr]>>,
       ![p].pc = "idle"]
  /\ UNCHANGED <<fs, db, crashed, ncalls, din, dres>>

Next ==
  \E p \in Procs :
    \/ \E n \in CallNames : Call(p, n)
    \/ ReadFirst(p)
    \/ ReadSecond(p)
    \/ DecodeStep(p)
    \/ Lock(p)
    \/ Insert(p)
    \/ Unlock(p)

Spec == Init /\ [][Next]_vars

(***************************************************************************)
(* Decode called on its own, on every input.                               *)
(***************************************************************************)
InitDecode ==
  /\ fs = [q \in Paths |-> Absent]
  /\ db = EmptyMap
  /\ mu = 0
  /\ crashed = FALSE
  /\ ncalls = 0
  /\ open = [p \in Procs |-> IdleProc]
  /\ din \in Inputs
  /\ dres = <<>>

DecodeCall ==
  /\ dres = <<>>
  /\ dres' = <<Decode(InputBuf(din))>>
  /\ UNCHANGED <<fs, db, mu, crashed, ncalls, open, din>>

NextDecode == DecodeCall

SpecDecode == InitDecode /\ [][NextDecode]_vars
(***************************************************************************)
(* Properties of Open, checked under Spec                                  *)
(***************************************************************************)
Done(p) == open[p].pc = "idle" /\ open[p].ret # <<>>
Returned(p) == open[p].ret[1]
NameSh == <<115, 104>>
Readable(f) == fs[f].kind = "file"
InRead(p) == open[p].pc \in {"read1", "read2", "decode"}
InInsert(p) == open[p].pc \in {"insert", "unlock"}

\* C1: when a caller's Open of a name succeeded and its next Open is of the
\* same name, the second call returns an equal result and reads no file.
C1_SecondOpenIsCacheHit ==
  \A p \in Procs :
    (/\ Done(p)
     /\ open[p].prev # <<>>
     /\ open[p].prev[1].name = open[p].name
     /\ open[p].prev[1].ret.err = NoErr)
    => (Returned(p) = open[p].prev[1].ret /\ open[p].probed = <<>>)

\* C2: an Open called with the empty name returns ErrEmptyTermName (the
\* program does not crash), has read no file and has not written the cache.
C2_EmptyNameFails ==
  \A p \in Procs :
    (open[p].pc # "idle" /\ open[p].name = <<>>)
    => (/\ ~crashed
        /\ open[p].ret = <<[ti |-> <<>>, err |-> ErrEmptyTermName]>>
        /\ open[p].probed = <<>>
        /\ ~open[p].wrote)

\* C3: an Open that returned an error has not written to the cache, whether
\* no candidate gave a buffer or Decode failed, and whatever was opened before.
C3_FailedOpenLeavesCache ==
  \A p \in Procs :
    (Done(p) /\ Returned(p).err # NoErr) => ~open[p].wrote

\* C3 witness: a failed Decode in an Open made after the cache was filled.
C3_Witness ==
  \E p \in Procs :
    /\ Done(p) /\ Returned(p).err = ErrInvalidExtendedHeader
    /\ open[p].dec # <<>>
    /\ db # EmptyMap

\* The file Open is to decode for name n: the first candidate that is a file.
ExpectedFile(n) ==
  IF Readable(Candidates(n)[1]) THEN Candidates(n)[1] ELSE Candidates(n)[2]

C4_AfterInsert ==
  \A p \in Procs :
    /\ open[p].ti # <<>> =>
         /\ open[p].ti[1].File = ExpectedFile(open[p].name)
         /\ Readable(open[p].ti[1].File)
    /\ open[p].pc = "unlock" =>
         \A k \in 1..Len(open[p].ti[1].Names) :
           /\ open[p].ti[1].Names[k] \in DOMAIN db
           /\ db[open[p].ti[1].Names[k]] = open[p].ti[1]
    /\ (Done(p) /\ Returned(p).err = NoErr) => Returned(p).ti = open[p].ti

C4_CacheStep ==
  /\ DOMAIN db \subseteq DOMAIN db'
  /\ \A k \in DOMAIN db' :
       (k \notin DOMAIN db \/ db'[k] # db[k]) =>
         \E p \in Procs :
           /\ open[p].pc = "insert"
           /\ k = open[p].ti[1].Names[open[p].i]
           /\ db'[k] = open[p].ti[1]

\* C4: a successful Open's table has File set to the candidate that was
\* read, and when the inserts are done the cache maps every name of the
\* table to it; a cache entry changes only when an Open inserts its own
\* table under one of that table's names (so the last insert wins and other
\* names keep their table), and no name ever leaves the cache.
C4_CachePublishes == []C4_AfterInsert /\ [][C4_CacheStep]_vars

\* C4 witness: x was opened, then y; their shared alias sh maps to y's table
\* while x still maps to x's table, which also declares sh.
C4_Witness ==
  /\ {NameX, NameSh} \subseteq DOMAIN db
  /\ db[NameX].File = Candidates(NameX)[1]
  /\ \E k \in 1..Len(db[NameX].Names) : db[NameX].Names[k] = NameSh
  /\ db[NameSh].File = Candidates(NameY)[1]
  /\ \A p \in Procs : open[p].pc = "idle"

C5_LockDiscipline ==
  /\ \A p \in Procs : InInsert(p) => mu = p
  /\ \A p \in Procs : InRead(p) => mu # p
  /\ Cardinality({p \in Procs : InInsert(p)}) <= 1

C5_WriteStep ==
  db' # db =>
    \E p \in Procs :
      /\ mu = p
      /\ open[p].pc = "insert"
      /\ open'[p] # open[p]
      /\ \A q \in Procs \ {p} : open'[q] = open[q] /\ ~InInsert(q)

\* C5: a caller in the insert section holds the mutex, at most one caller is
\* in it, a caller reading a file or decoding does not hold the mutex, and
\* every step that changes the cache is a step of the caller that holds the
\* mutex, so the inserts of one table are not interleaved with another's.
C5_CacheLocked == []C5_LockDiscipline /\ [][C5_WriteStep]_vars

\* C5 witness: two Opens of different names are both between their first
\* read and the end of Decode.
C5_Witness ==
  /\ \A p \in Procs : InRead(p)
  /\ open[1].name # open[2].name
  /\ \E p \in Procs : open[p].pc = "decode"

\* C6: Open reads the first-character path first and the hex path second,
\* does not read the second when the first can be read, succeeds with File
\* set to the first path when only that one exists, and fails with
\* ErrFileNotFound when neither candidate can be read.
C6_CandidateOrder ==
  \A p \in Procs :
    Done(p) =>
      LET c == Candidates(open[p].name)
      IN /\ open[p].probed \in {<<c[1]>>, <<c[1], c[2]>>}
         /\ Readable(c[1]) => open[p].probed = <<c[1]>>
         /\ (fs[c[1]] \in {File(EntryX), File(EntryY)} /\ fs[c[2]] = Absent)
              => (/\ Returned(p).err = NoErr
                  /\ Returned(p).ti[1].File = c[1])
         /\ (~Readable(c[1]) /\ ~Readable(c[2]))
              => Returned(p).err = ErrFileNotFound

\* C10: an error from Decode comes with no table, also when the error is
\* raised in the extended region, and an error from Open comes with no table.
C10_NoPartialResult ==
  \A p \in Procs :
    /\ (open[p].dec # <<>> /\ open[p].dec[1].err # NoErr)
         => open[p].dec[1].ti = <<>>
    /\ (open[p].ret # <<>> /\ Returned(p).err # NoErr) => Returned(p).ti = <<>>

\* C10 witness: Decode failed in the extended region, and so did Open.
C10_Witness ==
  \E p \in Procs :
    /\ Done(p)
    /\ open[p].buf = Buf(BadExtFile)
    /\ open[p].dec # <<>> /\ open[p].dec[1].err = ErrInvalidExtendedHeader
    /\ Returned(p).err = ErrInvalidExtendedHeader

(***************************************************************************)
(* Properties of Decode, checked under SpecDecode                          *)
(***************************************************************************)
Decoded == dres # <<>>
Result == dres[1]
LegacyLen == Len(BaseFile(din.base).legacy)
ExtLen == Len(BaseFile(din.base).ext)
\* The input is a well-formed file with its last byte removed.
CutLast == din.mut = "prefix" /\ din.k = LegacyLen + ExtLen - 1
\* The bytes of the input after the legacy region of its base file.
Rest == Len(InputBuf(din)) - LegacyLen

C7_ExactLength ==
  (din.base \in ValidBases /\ Decoded /\ Result.err = NoErr)
    => Rest \in {0, ExtLen}

\* C7 as claimed: a well-formed file is decoded only as a whole or up to the
\* end of its legacy region; with one more byte it fails with
\* ErrInvalidExtendedHeader; without its last byte it fails with
\* ErrInvalidExtendedHeader, or with ErrUnexpectedFileEnd when the byte is
\* cut from the legacy region.
C7_ExactConsumptionClaimed ==
  (din.base \in ValidBases /\ Decoded) =>
    /\ C7_ExactLength
    /\ din.mut = "append" => Result.err = ErrInvalidExtendedHeader
    /\ CutLast => Result.err = IF ExtLen > 0 THEN ErrInvalidExtendedHeader
                              ELSE ErrUnexpectedFileEnd

\* C7 as it holds: the same, but one more byte or one byte less fails with
\* ErrInvalidExtendedHeader only when at least the 10 bytes of an extended
\* header follow the legacy region, and with ErrUnexpectedFileEnd when
\* fewer than 10 bytes follow it or the byte is cut from the legacy region.
C7_ExactConsumption ==
  (din.base \in ValidBases /\ Decoded) =>
    /\ C7_ExactLength
    /\ (din.mut = "append" \/ CutLast) =>
         Result.err = IF Rest >= 10 THEN ErrInvalidExtendedHeader
                      ELSE ErrUnexpectedFileEnd

\* C7 witness: one byte after a file that has no extended region.
C7_Witness ==
  /\ Decoded
  /\ din.base = "names" /\ din.mut = "append"
  /\ Result.err = ErrUnexpectedFileEnd

\* The counts of the extended header of the input's base file.
ExtCount(f) ==
  LET e == BaseFile(din.base).ext IN ToInt16(e[2 * f + 1], e[2 * f + 2])
InBounds(m, arr) == \A n \in DOMAIN m : m[n] \in 0..(Len(arr) - 1)

\* C8: for an accepted file with an extended region, each name map has as
\* many names as the extended header counts and as its array has elements,
\* and maps every name to an index of its array; a file in which a name
\* resolves empty fails with ErrInvalidStringTable.
C8_ExtendedPartition ==
  (Decoded /\ din.mut = "none" /\ ExtLen > 0) =>
    /\ Result.err = NoErr =>
         LET t == Result.ti[1]
         IN /\ Cardinality(DOMAIN t.ExtBoolsNames) = ExtCount(fieldExtBoolCount)
            /\ Len(t.ExtBools) = ExtCount(fieldExtBoolCount)
            /\ Cardinality(DOMAIN t.ExtNumsNames) = ExtCount(fieldExtNumCount)
            /\ Len(t.ExtNums) = ExtCount(fieldExtNumCount)
            /\ Cardinality(DOMAIN t.ExtStringsNames) = ExtCount(fieldExtStringCount)
            /\ Len(t.ExtStrings) = ExtCount(fieldExtStringCount)
            /\ InBounds(t.ExtBoolsNames, t.ExtBools)
            /\ InBounds(t.ExtNumsNames, t.ExtNums)
            /\ InBounds(t.ExtStringsNames, t.ExtStrings)
    /\ din.base = "extEmptyName" => Result.err = ErrInvalidStringTable

\* C9: Decode returns ErrInvalidFileSize exactly for the buffers of 4096
\* bytes or more, whatever they hold, and a well-formed buffer of 4095
\* bytes is decoded.
C9_SizeCeiling ==
  Decoded =>
    /\ Result.err = ErrInvalidFileSize <=> Len(InputBuf(din)) >= 4096
    /\ (din.base = "sizedValid" /\ din.k = 4095) => Result.err = NoErr

\* C9 witness: 4096 bytes that do not start with the magic.
C9_Witness ==
  /\ Decoded
  /\ din = [base |-> "sizedJunk", mut |-> "size", k |-> 4096]
  /\ Result.err = ErrInvalidFileSize
=============================================================================
